---- MODULE Spec2Model ----
(***************************************************************************)
(* Model of packages/deepinfra/src/deepinfra-provider.ts: the DeepInfra     *)
(* provider factory.  Strings the claims compute with (URLs, API keys,      *)
(* header values) are sequences of one-character strings, so that           *)
(* concatenation and the trailing-slash test are computed character by      *)
(* character.  An absent (undefined) string is the one-element sequence     *)
(* <<"undefined">>, which no sequence of single characters equals.          *)
(***************************************************************************)
EXTENDS Naturals, Sequences, FiniteSets, TLC

VARIABLES
    env,       \* process.env.DEEPINFRA_API_KEY: a key, or Undefined
    options,   \* the caller's settings record, which createDeepInfra keeps by reference
    provider,  \* the closure of createDeepInfra: its const baseURL (and, as history, the settings it was called with)
    model,     \* the model instance most recently returned by a factory method
    last       \* the call made by the latest step and its outcome (history variable)

vars == <<env, options, provider, model, last>>

----------------------------------------------------------------------------
(* Bounds and input domains *)

MaxURLLen == 3
MaxPathLen == 2

Undefined == <<"undefined">>

URLChars == {"/", "x"}

Strings(n) == UNION {[1..k -> URLChars] : k \in 0..n}

BaseURLs == Strings(MaxURLLen) \cup {Undefined}

Paths == Strings(MaxPathLen)

ApiKeys == {<<"a">>, <<"b">>}

HeaderNames == {"Authorization", "authorization", "X-Custom"}

HeaderMaps == {[n \in S |-> <<"v">>] : S \in SUBSET HeaderNames}

Fetches == {"undefined", "fetch1"}

ModelIds == {"m1", "m2"}

\* the settings argument of a factory method: omitted, or one of two objects
SettingsArgs == {"undefined", "{}", "s1"}

Methods == {"call", "chatModel", "languageModel", "completionModel",
            "textEmbeddingModel", "image", "imageModel"}

\* the settings record with every field omitted; createDeepInfra's default argument
EmptyOptions == [apiKey |-> Undefined, baseURL |-> Undefined, headers |-> <<>>, fetch |-> "undefined"]

----------------------------------------------------------------------------
(* String literals of the source *)

DefaultBaseURL ==
    <<"h","t","t","p","s",":","/","/","a","p","i",".","d","e","e","p","i","n","f","r","a",".","c","o","m","/","v","1">>

DefaultInferenceURL ==
    <<"h","t","t","p","s",":","/","/","a","p","i",".","d","e","e","p","i","n","f","r","a",".","c","o","m","/","v","1",
      "/","i","n","f","e","r","e","n","c","e">>

OpenAISuffix == <<"/","o","p","e","n","a","i">>

InferenceSuffix == <<"/","i","n","f","e","r","e","n","c","e">>

BearerPrefix == <<"B","e","a","r","e","r"," ">>

----------------------------------------------------------------------------
(* Imported helpers of @ai-sdk/provider-utils *)

\* url?.replace(/\/$/, ''): one trailing slash is removed, if there is one
withoutTrailingSlash(url) ==
    IF url = Undefined THEN Undefined
    ELSE IF Len(url) > 0 /\ url[Len(url)] = "/" THEN SubSeq(url, 1, Len(url) - 1)
    ELSE url

\* the apiKey setting if given, else the environment variable, else LoadAPIKeyError
loadApiKey(apiKey, envValue) ==
    IF apiKey # Undefined THEN [threw |-> FALSE, value |-> apiKey]
    ELSE IF envValue # Undefined THEN [threw |-> FALSE, value |-> envValue]
    ELSE [threw |-> TRUE, value |-> Undefined]

\* JavaScript truthiness of an optional string
Truthy(s) == s # Undefined /\ s # <<>>

\* { ...a, ...b }: the keys of both, b's value where both have the key
Spread(a, b) == b @@ a

----------------------------------------------------------------------------
(* createDeepInfra and its closures *)

\* the base URL taken as supplied, without withoutTrailingSlash
ResolveBaseURL_NoStrip(opts) ==
    IF opts.baseURL = Undefined THEN DefaultBaseURL ELSE opts.baseURL

\* const baseURL = withoutTrailingSlash(options.baseURL ?? 'https://api.deepinfra.com/v1')
ResolveBaseURL(opts) ==
    withoutTrailingSlash(IF opts.baseURL = Undefined THEN DefaultBaseURL ELSE opts.baseURL)

\* createDeepInfra that loads the API key when the provider is constructed
createDeepInfra_Eager(opts, envValue) ==
    [threw |-> loadApiKey(opts.apiKey, envValue).threw, baseURL |-> ResolveBaseURL(opts)]

\* createDeepInfra(options): computes baseURL, defines the closures, returns the provider;
\* nothing in it reads the API key
createDeepInfra(opts, envValue) ==
    [threw |-> FALSE, baseURL |-> ResolveBaseURL(opts)]

\* getHeaders with the spread written first, so that the computed Authorization wins
getHeaders_ComputedLast(opts, envValue) ==
    LET key == loadApiKey(opts.apiKey, envValue)
    IN  IF key.threw THEN [threw |-> TRUE, error |-> "LoadAPIKeyError"]
        ELSE [threw |-> FALSE,
              value |-> Spread(opts.headers, "Authorization" :> (BearerPrefix \o key.value))]

\* getHeaders with the key loaded once, when the model was created
getHeaders_Baked(opts, envValue) ==
    LET key == loadApiKey(opts.apiKey, model.envAtCreate)
    IN  IF key.threw THEN [threw |-> TRUE, error |-> "LoadAPIKeyError"]
        ELSE [threw |-> FALSE,
              value |-> Spread("Authorization" :> (BearerPrefix \o key.value), opts.headers)]

\* getHeaders that skips the key when the caller's headers carry their own Authorization
getHeaders_OverrideFirst(opts, envValue) ==
    LET key == loadApiKey(opts.apiKey, envValue)
    IN  IF "Authorization" \in DOMAIN opts.headers THEN [threw |-> FALSE, value |-> opts.headers]
        ELSE IF key.threw THEN [threw |-> TRUE, error |-> "LoadAPIKeyError"]
        ELSE [threw |-> FALSE,
              value |-> Spread("Authorization" :> (BearerPrefix \o key.value), opts.headers)]

\* getHeaders(): the API key is loaded first (and may throw, in which case nothing is
\* returned), then options.headers is spread over the computed Authorization
getHeaders(opts, envValue) ==
    LET key == loadApiKey(opts.apiKey, envValue)
    IN  IF key.threw THEN [threw |-> TRUE, error |-> "LoadAPIKeyError"]
        ELSE [threw |-> FALSE,
              value |-> Spread("Authorization" :> (BearerPrefix \o key.value), opts.headers)]

\* url: ({ path }) => `${baseURL}/openai${path}`, applied to a path
ApplyUrl(url, path) == url.baseURL \o OpenAISuffix \o path

\* getCommonModelConfig whose url uses options.baseURL as supplied instead of the const baseURL
getCommonModelConfig_RawBase(modelType) ==
    [provider |-> "deepinfra." \o modelType,
     url      |-> [baseURL |-> provider.optionsAtCreate.baseURL],
     headers  |-> "getHeaders",
     fetch    |-> options.fetch]

\* getCommonModelConfig whose url resolves the base URL from options when the config is built
getCommonModelConfig_LiveBase(modelType) ==
    [provider |-> "deepinfra." \o modelType,
     url      |-> [baseURL |-> ResolveBaseURL(options)],
     headers  |-> "getHeaders",
     fetch    |-> options.fetch]

\* getCommonModelConfig that also carries a baseURL field
getCommonModelConfig_WithBaseURL(modelType) ==
    [provider |-> "deepinfra." \o modelType,
     url      |-> [baseURL |-> provider.baseURL],
     baseURL  |-> provider.baseURL,
     headers  |-> "getHeaders",
     fetch    |-> options.fetch]

\* getCommonModelConfig(modelType); url is the closure over the const baseURL,
\* headers is the getHeaders closure, fetch is read from options when the config is built
getCommonModelConfig(modelType) ==
    [provider |-> "deepinfra." \o modelType,
     url      |-> [baseURL |-> provider.baseURL],
     headers  |-> "getHeaders",
     fetch    |-> options.fetch]

\* a default parameter `settings = {}`
DefaultSettings(settings) == IF settings = "undefined" THEN "{}" ELSE settings

createChatModel(modelId, settings) ==
    [class    |-> "OpenAICompatibleChatLanguageModel",
     modelId  |-> modelId,
     settings |-> DefaultSettings(settings),
     config   |-> Spread(getCommonModelConfig("chat"), "defaultObjectGenerationMode" :> "json")]

createCompletionModel(modelId, settings) ==
    [class    |-> "OpenAICompatibleCompletionLanguageModel",
     modelId  |-> modelId,
     settings |-> DefaultSettings(settings),
     config   |-> getCommonModelConfig("completion")]

createTextEmbeddingModel(modelId, settings) ==
    [class    |-> "OpenAICompatibleEmbeddingModel",
     modelId  |-> modelId,
     settings |-> DefaultSettings(settings),
     config   |-> getCommonModelConfig("embedding")]

\* createImageModel without the fallback for an empty base URL
createImageModel_NoFallback(modelId, settings) ==
    [class    |-> "DeepInfraImageModel",
     modelId  |-> modelId,
     settings |-> DefaultSettings(settings),
     config   |-> Spread(getCommonModelConfig("image"),
                         "baseURL" :> (provider.baseURL \o InferenceSuffix))]

\* new DeepInfraImageModel(modelId, settings, { ...common, baseURL }): the common config
\* is spread into the image config, then baseURL is added
createImageModel(modelId, settings) ==
    [class    |-> "DeepInfraImageModel",
     modelId  |-> modelId,
     settings |-> DefaultSettings(settings),
     config   |-> Spread(getCommonModelConfig("image"),
                         "baseURL" :> (IF Truthy(provider.baseURL)
                                       THEN provider.baseURL \o InferenceSuffix
                                       ELSE DefaultInferenceURL))]

\* the provider function bound to the completion factory
providerCall_Completion(modelId, settings) == createCompletionModel(modelId, settings)

\* the provider function itself: (modelId, settings) => createChatModel(modelId, settings)
providerCall(modelId, settings) == createChatModel(modelId, settings)

\* the provider object: the function and the methods assigned to it
providerMethod(method, modelId, settings) ==
    CASE method = "call"               -> providerCall(modelId, settings)
      [] method = "completionModel"    -> createCompletionModel(modelId, settings)
      [] method = "chatModel"          -> createChatModel(modelId, settings)
      [] method = "image"              -> createImageModel(modelId, settings)
      [] method = "imageModel"         -> createImageModel(modelId, settings)
      [] method = "languageModel"      -> createChatModel(modelId, settings)
      [] method = "textEmbeddingModel" -> createTextEmbeddingModel(modelId, settings)

----------------------------------------------------------------------------
(* State machine *)

NoProvider == [status |-> "none"]

NoModel == [class |-> "none"]

NoCall == [kind |-> "none", threw |-> FALSE]

UsesUrl(m) == m.class \in {"OpenAICompatibleChatLanguageModel",
                           "OpenAICompatibleCompletionLanguageModel",
                           "OpenAICompatibleEmbeddingModel"}

\* the caller calls createDeepInfra(options)
CreateDeepInfra ==
    /\ provider.status = "none"
    /\ LET r == createDeepInfra(options, env)
       IN  /\ provider' = IF r.threw THEN provider
                          ELSE [status |-> "created", baseURL |-> r.baseURL, optionsAtCreate |-> options]
           /\ last' = [kind |-> "createDeepInfra", threw |-> r.threw]
    /\ UNCHANGED <<env, options, model>>

\* the caller calls the provider or one of its methods; the SDK constructor keeps its arguments.
\* via, args, envAtCreate and fetchAtCreate are history fields of the model slot.
Factory(method, modelId, settings) ==
    /\ provider.status = "created"
    /\ model' = [via |-> method, args |-> <<modelId, settings>>,
                 envAtCreate |-> env, fetchAtCreate |-> options.fetch]
                @@ providerMethod(method, modelId, settings)
    /\ last' = [kind |-> "factory", threw |-> FALSE]
    /\ UNCHANGED <<env, options, provider>>

\* the model instance calls config.headers()
ResolveHeaders ==
    /\ model.class # "none"
    /\ model.config.headers = "getHeaders"
    /\ LET r == getHeaders(options, env)
       IN  last' = [kind |-> "headers"] @@ r
    /\ UNCHANGED <<env, options, provider, model>>

\* a chat, completion or embedding model instance calls config.url({ path })
ResolveUrl(path) ==
    /\ UsesUrl(model)
    /\ last' = [kind |-> "url", threw |-> FALSE, path |-> path,
                value |-> ApplyUrl(model.config.url, path)]
    /\ UNCHANGED <<env, options, provider, model>>

\* the environment variable is set, changed or removed
SetEnv(v) ==
    /\ v # env
    /\ env' = v
    /\ last' = NoCall
    /\ UNCHANGED <<options, provider, model>>

\* the caller assigns a field of the options record after createDeepInfra returned
MutateOptions(field, v) ==
    /\ provider.status = "created"
    /\ options[field] # v
    /\ options' = [options EXCEPT ![field] = v]
    /\ last' = NoCall
    /\ UNCHANGED <<env, provider, model>>

TypeOK ==
    /\ env \in ApiKeys \cup {Undefined}
    /\ options.apiKey \in ApiKeys \cup {Undefined}
    /\ options.baseURL \in BaseURLs
    /\ options.headers \in HeaderMaps
    /\ options.fetch \in Fetches
    /\ provider.status \in {"none", "created"}
    /\ last.kind \in {"none", "createDeepInfra", "factory", "headers", "url"}

----------------------------------------------------------------------------
(* Spec: header resolution and the environment.  The settings give apiKey  *)
(* and headers; the environment variable changes at any time.              *)

Init ==
    /\ env \in ApiKeys \cup {Undefined}
    /\ options \in [apiKey : ApiKeys \cup {Undefined}, baseURL : {Undefined},
                    headers : HeaderMaps, fetch : {"undefined"}]
    /\ provider = NoProvider
    /\ model = NoModel
    /\ last = NoCall

Next ==
    \/ CreateDeepInfra
    \/ \E method \in Methods : Factory(method, "m1", "undefined")
    \/ ResolveHeaders
    \/ \E v \in ApiKeys \cup {Undefined} : SetEnv(v)

Spec == Init /\ [][Next]_vars

----------------------------------------------------------------------------
(* SpecURL: the base URL and the factory methods.  The settings give any   *)
(* baseURL of BaseURLs and any fetch; every method is called with every    *)
(* model id and settings argument; the URL resolver is applied to paths.   *)

InitURL ==
    /\ env = Undefined
    /\ options \in [apiKey : {<<"a">>}, baseURL : BaseURLs, headers : {<<>>}, fetch : Fetches]
    /\ provider = NoProvider
    /\ model = NoModel
    /\ last = NoCall

NextURL ==
    \/ CreateDeepInfra
    \/ \E method \in Methods, modelId \in ModelIds, settings \in SettingsArgs :
          Factory(method, modelId, settings)
    \/ \E path \in Paths : ResolveUrl(path)

SpecURL == InitURL /\ [][NextURL]_vars

----------------------------------------------------------------------------
(* SpecMutate: the caller keeps the options record and assigns its fields   *)
(* after createDeepInfra has returned.                                     *)

MutBaseURLs == {Undefined, <<"x">>, <<"/">>}

MutHeaderMaps == {<<>>, [n \in {"X-Custom"} |-> <<"v">>], [n \in {"Authorization"} |-> <<"v">>]}

MutPaths == {<<>>, <<"/", "x">>}

InitMutate ==
    /\ env = Undefined
    /\ options \in [apiKey : ApiKeys \cup {Undefined}, baseURL : MutBaseURLs,
                    headers : MutHeaderMaps, fetch : Fetches]
    /\ provider = NoProvider
    /\ model = NoModel
    /\ last = NoCall

NextMutate ==
    \/ CreateDeepInfra
    \/ \E method \in Methods : Factory(method, "m1", "undefined")
    \/ ResolveHeaders
    \/ \E path \in MutPaths : ResolveUrl(path)
    \/ \E v \in ApiKeys \cup {Undefined} : MutateOptions("apiKey", v)
    \/ \E v \in MutBaseURLs : MutateOptions("baseURL", v)
    \/ \E v \in MutHeaderMaps : MutateOptions("headers", v)
    \/ \E v \in Fetches : MutateOptions("fetch", v)

SpecMutate == InitMutate /\ [][NextMutate]_vars

----------------------------------------------------------------------------
(* Properties *)

Created == provider.status = "created"

HasModel == model.class # "none"

IsImage == model.class = "DeepInfraImageModel"

EndsWithSlash(s) == s # Undefined /\ Len(s) > 0 /\ s[Len(s)] = "/"

ButLast(s) == SubSeq(s, 1, Len(s) - 1)

\* the baseURL setting createDeepInfra was called with
SuppliedBaseURL == provider.optionsAtCreate.baseURL

\* the resolved base URL as the specification words it: the supplied baseURL with its
\* trailing slash removed, or the default
SpecResolvedBaseURL ==
    IF SuppliedBaseURL = Undefined
    THEN <<"h","t","t","p","s",":","/","/","a","p","i",".","d","e","e","p","i","n","f","r","a",".","c","o","m","/","v","1">>
    ELSE IF EndsWithSlash(SuppliedBaseURL) THEN ButLast(SuppliedBaseURL)
    ELSE SuppliedBaseURL

\* what the latest header resolution returned, without the history field
LastResult == [f \in DOMAIN last \ {"kind"} |-> last[f]]

\* the header mapping that merges H over Authorization = Bearer key
MergedOver(key, H) ==
    [n \in DOMAIN H \cup {"Authorization"} |->
        IF n \in DOMAIN H THEN H[n] ELSE BearerPrefix \o key]

\* C1: with an API key k in the settings and any headers mapping H, a header resolution
\* returns exactly the keys of H and Authorization, every key of H with H's value, and
\* Authorization = "Bearer k" unless H has a key named exactly Authorization.
C1_HeadersMerged ==
    (last.kind = "headers" /\ options.apiKey # Undefined) =>
        /\ ~last.threw
        /\ DOMAIN last.value = DOMAIN options.headers \cup {"Authorization"}
        /\ \A n \in DOMAIN options.headers : last.value[n] = options.headers[n]
        /\ "Authorization" \notin DOMAIN options.headers
              => last.value["Authorization"] = BearerPrefix \o options.apiKey

\* C1 witness: a resolution whose H overrides Authorization and adds another key
C1_Witness ==
    /\ last.kind = "headers"
    /\ options.apiKey = <<"a">>
    /\ DOMAIN options.headers = {"Authorization", "X-Custom"}
    /\ ~last.threw
    /\ last.value = [n \in {"Authorization", "X-Custom"} |-> <<"v">>]

\* C2: without an apiKey setting and without DEEPINFRA_API_KEY, createDeepInfra and every
\* factory method succeed; the API-key error is raised only by a header resolution, and by
\* every header resolution made while the key cannot be resolved.
C2_KeyErrorOnlyAtHeaders ==
    /\ last.kind = "createDeepInfra" => ~last.threw /\ Created
    /\ last.kind = "factory" => ~last.threw /\ HasModel
    /\ last.threw => last.kind = "headers"
    /\ (last.kind = "headers" /\ options.apiKey = Undefined /\ env = Undefined)
          => last.threw /\ last.error = "LoadAPIKeyError"

\* C2 witness: the provider made with no settings and no environment key, a model made by
\* it, and the model's header resolution failing
C2_Witness ==
    /\ Created
    /\ provider.optionsAtCreate = EmptyOptions
    /\ HasModel
    /\ model.envAtCreate = Undefined
    /\ env = Undefined
    /\ last.kind = "headers"
    /\ last.threw

\* C3: without an apiKey setting, every header resolution uses the value DEEPINFRA_API_KEY
\* has at that call: it fails when the variable is unset and otherwise returns
\* Authorization = "Bearer <current value>", also for a model made before the value changed.
C3_KeyRederivedPerCall ==
    (last.kind = "headers" /\ options.apiKey = Undefined) =>
        IF env = Undefined THEN last.threw
        ELSE /\ ~last.threw
             /\ "Authorization" \notin DOMAIN options.headers
                   => last.value["Authorization"] = BearerPrefix \o env

\* C3 witness: a model made while the variable was "a" resolves Bearer "b" after the rotation
C3_Witness ==
    /\ HasModel
    /\ options.apiKey = Undefined
    /\ model.envAtCreate = <<"a">>
    /\ env = <<"b">>
    /\ last.kind = "headers"
    /\ ~last.threw
    /\ last.value["Authorization"] = BearerPrefix \o <<"b">>

\* C10: the API key is resolved before the caller's headers are looked at: with no apiKey
\* setting and no DEEPINFRA_API_KEY, a header resolution fails and returns no mapping even
\* when the supplied headers have their own Authorization key.
C10_KeyLoadedBeforeSpread ==
    (/\ last.kind = "headers"
     /\ options.apiKey = Undefined
     /\ env = Undefined
     /\ "Authorization" \in DOMAIN options.headers)
        => last.threw /\ "value" \notin DOMAIN last

\* C10 witness: such a resolution, failed
C10_Witness ==
    /\ last.kind = "headers"
    /\ options.apiKey = Undefined
    /\ env = Undefined
    /\ "Authorization" \in DOMAIN options.headers
    /\ last.threw

\* C4: when the settings omit baseURL, the URL resolver of a chat, completion or embedding
\* model maps every path p to "https://api.deepinfra.com/v1/openai" followed by p.
C4_DefaultOpenAIURL ==
    (last.kind = "url" /\ SuppliedBaseURL = Undefined) =>
        last.value =
            <<"h","t","t","p","s",":","/","/","a","p","i",".","d","e","e","p","i","n","f","r","a",".","c","o","m",
              "/","v","1","/","o","p","e","n","a","i">> \o last.path

\* C4 witness: an embedding model of the default base URL resolving the path "/x"
C4_Witness ==
    /\ last.kind = "url"
    /\ SuppliedBaseURL = Undefined
    /\ model.via = "textEmbeddingModel"
    /\ last.path = <<"/", "x">>

\* C5 as stated: a baseURL b + "/" resolves every path like the provider made with b, to
\* b + "/openai" + p, and the resolved base URL never ends with a slash.
C5_Stated ==
    (Created /\ EndsWithSlash(SuppliedBaseURL)) =>
        LET b == ButLast(SuppliedBaseURL)
        IN  /\ ~EndsWithSlash(provider.baseURL)
            /\ last.kind = "url" =>
                  /\ last.value = b \o OpenAISuffix \o last.path
                  /\ last.value = ApplyUrl([baseURL |-> ResolveBaseURL([baseURL |-> b])], last.path)

\* C5 (amended): exactly one trailing slash is removed: a baseURL b + "/" resolves every
\* path p to b + "/openai" + p; when b does not itself end with a slash this is the URL of
\* the provider made with b, and the resolved base URL does not end with a slash.
C5_OneSlashRemoved ==
    (Created /\ EndsWithSlash(SuppliedBaseURL)) =>
        LET b == ButLast(SuppliedBaseURL)
        IN  /\ provider.baseURL = b
            /\ last.kind = "url" => last.value = b \o OpenAISuffix \o last.path
            /\ ~EndsWithSlash(b) =>
                  /\ ~EndsWithSlash(provider.baseURL)
                  /\ last.kind = "url" =>
                        last.value = ApplyUrl([baseURL |-> ResolveBaseURL([baseURL |-> b])], last.path)

\* C5 witness: baseURL "x/" resolving the path "/x" to "x/openai/x"
C5_Witness ==
    /\ Created
    /\ SuppliedBaseURL = <<"x", "/">>
    /\ last.kind = "url"
    /\ last.path = <<"/", "x">>
    /\ last.value = <<"x", "/","o","p","e","n","a","i", "/", "x">>

\* C6 as stated: the image configuration's baseURL is the resolved base URL followed by
\* "/inference" for every supplied baseURL, the empty string and "/" included.
C6_Stated ==
    IsImage => model.config.baseURL = SpecResolvedBaseURL \o InferenceSuffix

\* C6 (amended): the image configuration's baseURL is the resolved base URL followed by
\* "/inference" when the resolved base URL is not empty, and the default
\* "https://api.deepinfra.com/v1/inference" when it is empty (baseURL "" or "/").
C6_ImageBaseURL ==
    IsImage =>
        model.config.baseURL =
            IF SpecResolvedBaseURL # <<>>
            THEN SpecResolvedBaseURL \o <<"/","i","n","f","e","r","e","n","c","e">>
            ELSE <<"h","t","t","p","s",":","/","/","a","p","i",".","d","e","e","p","i","n","f","r","a",".",
                   "c","o","m","/","v","1","/","i","n","f","e","r","e","n","c","e">>

\* C6 witness: an image model of the provider made with baseURL "/"
C6_Witness ==
    /\ IsImage
    /\ SuppliedBaseURL = <<"/">>
    /\ model.via = "imageModel"
    /\ model.config.baseURL = DefaultInferenceURL

\* C7: the provider called directly, chatModel and languageModel build the same model from
\* the same arguments: the chat class, tag "deepinfra.chat", the URL resolver over the
\* provider's base URL, the header resolver, the fetch setting and generation mode "json";
\* completionModel builds the completion class with tag "deepinfra.completion" and no
\* generation mode.
C7_ChatMethodsAgree ==
    HasModel =>
        /\ model.via \in {"call", "chatModel", "languageModel"} =>
              /\ model.class = "OpenAICompatibleChatLanguageModel"
              /\ model.modelId = model.args[1]
              /\ model.settings = (IF model.args[2] = "undefined" THEN "{}" ELSE model.args[2])
              /\ model.config = [provider |-> "deepinfra.chat",
                                 url |-> [baseURL |-> provider.baseURL],
                                 headers |-> "getHeaders",
                                 fetch |-> options.fetch,
                                 defaultObjectGenerationMode |-> "json"]
              /\ \A other \in {"call", "chatModel", "languageModel"} :
                    providerMethod(other, model.args[1], model.args[2])
                        = [f \in {"class", "modelId", "settings", "config"} |-> model[f]]
        /\ model.via = "completionModel" =>
              /\ model.class = "OpenAICompatibleCompletionLanguageModel"
              /\ model.config.provider = "deepinfra.completion"
              /\ "defaultObjectGenerationMode" \notin DOMAIN model.config

\* C7 witness: the provider called directly with the settings argument omitted
C7_Witness ==
    /\ HasModel
    /\ model.via = "call"
    /\ model.args = <<"m2", "undefined">>
    /\ model.settings = "{}"
    /\ model.config.defaultObjectGenerationMode = "json"

\* C8 as stated: the image configuration has a baseURL field and no url field; the chat,
\* completion and embedding configurations have a url field and no baseURL field.
C8_Stated ==
    HasModel =>
        IF IsImage
        THEN "baseURL" \in DOMAIN model.config /\ "url" \notin DOMAIN model.config
        ELSE "url" \in DOMAIN model.config /\ "baseURL" \notin DOMAIN model.config

\* C8 (amended): the image configuration has a baseURL field in addition to the fields of
\* the common configuration, the url resolver among them; the chat, completion and
\* embedding configurations have a url field and no baseURL field.
C8_ImageConfigFields ==
    HasModel =>
        IF IsImage
        THEN /\ DOMAIN model.config = {"provider", "url", "headers", "fetch", "baseURL"}
             /\ model.config.url = [baseURL |-> provider.baseURL]
             /\ model.config.provider = "deepinfra.image"
        ELSE "url" \in DOMAIN model.config /\ "baseURL" \notin DOMAIN model.config

\* C8 witness: an image model, whose configuration has both fields
C8_Witness ==
    /\ IsImage
    /\ model.via = "image"
    /\ "url" \in DOMAIN model.config
    /\ "baseURL" \in DOMAIN model.config

\* C9 as stated: after createDeepInfra has returned, no assignment to a field of the
\* options record changes the headers resolved, the URLs resolved or the fetch given to a
\* model: all are those of the settings createDeepInfra was called with.
C9_Stated ==
    Created =>
        /\ last.kind = "headers" => LastResult = getHeaders(provider.optionsAtCreate, env)
        /\ last.kind = "url" => last.value = SpecResolvedBaseURL \o OpenAISuffix \o last.path
        /\ HasModel => model.config.fetch = provider.optionsAtCreate.fetch

\* C9 (amended): only baseURL is fixed when createDeepInfra returns: later assignments to
\* options.baseURL change no URL resolver and no image baseURL.  apiKey and headers are
\* read from the options record at every header resolution, and fetch at every factory
\* call: a header resolution of any model uses the current apiKey and headers, and a
\* model keeps the fetch the record had when the model was made.
C9_OnlyBaseURLCaptured ==
    Created =>
        /\ provider.baseURL = SpecResolvedBaseURL
        /\ last.kind = "url" => last.value = SpecResolvedBaseURL \o OpenAISuffix \o last.path
        /\ IsImage => model.config.baseURL =
              (IF SpecResolvedBaseURL # <<>> THEN SpecResolvedBaseURL \o InferenceSuffix
               ELSE DefaultInferenceURL)
        /\ HasModel => model.config.fetch = model.fetchAtCreate
        /\ last.kind = "headers" =>
              IF options.apiKey = Undefined /\ env = Undefined THEN last.threw
              ELSE /\ ~last.threw
                   /\ last.value =
                         MergedOver(IF options.apiKey # Undefined THEN options.apiKey ELSE env,
                                    options.headers)

\* C9 witness: a model made before apiKey, baseURL and fetch were reassigned resolves
\* headers with the new apiKey
C9_Witness ==
    /\ Created
    /\ HasModel
    /\ options.baseURL # provider.optionsAtCreate.baseURL
    /\ options.apiKey # provider.optionsAtCreate.apiKey
    /\ options.apiKey # Undefined
    /\ options.fetch # model.fetchAtCreate
    /\ "Authorization" \notin DOMAIN options.headers
    /\ last.kind = "headers"
    /\ ~last.threw
    /\ last.value["Authorization"] = BearerPrefix \o options.apiKey

====
